---- MODULE Spec2Model ----
(***************************************************************************)
(* Model of the Signal bridge bot (bot/main.go): the trigger matcher, the  *)
(* per-message dispatch (processMessage), the reply sender (sendReply),    *)
(* the completion client (callAgent) and the polling loop (Run).           *)
(*                                                                         *)
(* Strings are sequences of one-symbol strings, so that HasPrefix,         *)
(* TrimPrefix and TrimSpace are computed as the Go library computes them.  *)
(***************************************************************************)
EXTENDS Integers, Sequences, FiniteSets, TLC

(***************************************************************************)
(* Bounds of the model.                                                    *)
(***************************************************************************)
\* the longest batch one receive returns
MaxBatch == 2

\* how many entries are ever put into the pending table
MaxPuts == 2

\* the last instant of the table's clock, in minutes
MaxTime == 7

\* the longest run of symbols that follows the opening of a text the
\* matcher is tried on
MaxTail == 2

(***************************************************************************)
(* strings package                                                         *)
(***************************************************************************)
HasPrefix(s, p) == Len(p) <= Len(s) /\ SubSeq(s, 1, Len(p)) = p

TrimPrefix(s, p) == IF HasPrefix(s, p) THEN SubSeq(s, Len(p) + 1, Len(s)) ELSE s

IsSpace(c) == c \in {" ", "\t", "\n", "\r"}

RECURSIVE TrimLeft(_)
TrimLeft(s) == IF s # <<>> /\ IsSpace(Head(s)) THEN TrimLeft(Tail(s)) ELSE s

RECURSIVE TrimRight(_)
TrimRight(s) ==
    IF s # <<>> /\ IsSpace(s[Len(s)]) THEN TrimRight(SubSeq(s, 1, Len(s) - 1)) ELSE s

TrimSpace(s) == TrimRight(TrimLeft(s))

Digit(d) == <<"0", "1", "2", "3", "4", "5", "6", "7", "8", "9">>[d + 1]

\* strconv.FormatInt(n, 10) for n >= 0
RECURSIVE FormatInt(_)
FormatInt(n) == IF n < 10 THEN <<Digit(n)>> ELSE FormatInt(n \div 10) \o <<Digit(n % 10)>>

(***************************************************************************)
(* Configuration and triggers (NewSignalBot)                               *)
(***************************************************************************)
\* getEnv("AI_PREFIX", "!ai"): the default prefix
AIPrefix == <<"!", "a", "i">>

\* the completion service's address the model runs the loop with
AgentURL == <<"h", "t", "t", "p", "s", ":", "/", "/", "w">>

\* the bot's Config, read from the environment once, by NewSignalBot
VARIABLE config

\* the robot emoji is one symbol
triggers == << <<"robot", " ">>, <<"q", "q", " ">>, config.AIPrefix \o <<" ">> >>

\* AGENT_URL unset, or set to an address of another scheme, or of the
\* scheme in capitals, or to the address above
AgentURLs ==
    {<<>>, <<"f", "t", "p", ":", "/", "/", "w">>,
     <<"H", "T", "T", "P", ":", "/", "/", "w">>, AgentURL}

\* a validation that lets every address pass
validateConfig_AcceptsAll == "nil"

\* the error validateConfig returns, "nil" for none
validateConfig ==
    IF config.AgentURL = <<>> THEN "AGENT_URL environment variable is required"
    ELSE IF /\ ~HasPrefix(config.AgentURL, <<"h", "t", "t", "p", ":", "/", "/">>)
            /\ ~HasPrefix(config.AgentURL, <<"h", "t", "t", "p", "s", ":", "/", "/">>)
         THEN "invalid agent URL"
         ELSE "nil"

(***************************************************************************)
(* The addresses, timestamps and texts the transport delivers              *)
(***************************************************************************)
\* the account the bot is linked to: the source of every linked-device echo
Operator == <<"+", "0">>

\* a counterpart
Peer == <<"+", "1", "5", "5", "5">>

GroupIds == {<<"G", "1">>}

Timestamps == {999, 1000}

NoText == <<>>

\* "!ai 2+2 " : triggered, prompt "2+2"
TextAsk == <<"!", "a", "i", " ", "2", "+", "2", " ">>

\* "!ai  " : triggered, nothing left after trimming
TextBare == <<"!", "a", "i", " ", " ">>

\* "robot sum" : triggered by the emoji trigger
TextRobot == <<"robot", " ", "s", "u", "m">>

\* "hi" : not triggered
TextPlain == <<"h", "i">>

Texts == {TextAsk, TextBare, TextRobot, TextPlain}

(***************************************************************************)
(* What signal-cli prints: one JSON line per envelope.  A line carries the *)
(* fields the Message struct declares and, for a receipt, a receiptMessage *)
(* object the struct does not declare.                                     *)
(***************************************************************************)
SyncLine(ts, text, gid) ==
    [source |-> Operator, timestamp |-> ts,
     sentMessage |-> text, sentGroupId |-> gid,
     dataMessage |-> NoText, dataGroupId |-> <<>>,
     receiptTimestamps |-> <<>>, isDelivery |-> FALSE]

DataLine(src, ts, text, gid) ==
    [source |-> src, timestamp |-> ts,
     sentMessage |-> NoText, sentGroupId |-> <<>>,
     dataMessage |-> text, dataGroupId |-> gid,
     receiptTimestamps |-> <<>>, isDelivery |-> FALSE]

ReceiptLine(src, tss, delivery) ==
    [source |-> src, timestamp |-> 1000,
     sentMessage |-> NoText, sentGroupId |-> <<>>,
     dataMessage |-> NoText, dataGroupId |-> <<>>,
     receiptTimestamps |-> tss, isDelivery |-> delivery]

\* an envelope with neither text nor receipt (typing indicator, read sync)
EmptyLine == DataLine(Peer, 1000, NoText, <<>>)

Lines ==
    {SyncLine(ts, t, g) : ts \in Timestamps, t \in Texts, g \in GroupIds \cup {<<>>}}
    \cup {DataLine(Peer, ts, t, g) : ts \in Timestamps, t \in Texts, g \in GroupIds \cup {<<>>}}
    \cup {ReceiptLine(Peer, <<999, 1000>>, TRUE), ReceiptLine(Peer, <<1000>>, TRUE),
          ReceiptLine(Peer, <<1000>>, FALSE)}
    \cup {EmptyLine}

\* json.Unmarshal into Message: only the declared fields are kept
Unmarshal(line) ==
    [Source |-> line.source, Timestamp |-> line.timestamp,
     SentMessage |-> line.sentMessage, SentGroupId |-> line.sentGroupId,
     DataMessage |-> line.dataMessage, DataGroupId |-> line.dataGroupId]

\* the batches of at most n lines
Batches(n) == UNION {[1..k -> Lines] : k \in 0..n}

(***************************************************************************)
(* Message methods                                                         *)
(***************************************************************************)
\* an envelope with no text read as a command
extractContent_Default(msg) ==
    IF msg.SentMessage # <<>> THEN msg.SentMessage
    ELSE IF msg.DataMessage # <<>> THEN msg.DataMessage ELSE TextAsk

extractContent(msg) == IF msg.SentMessage # <<>> THEN msg.SentMessage ELSE msg.DataMessage

\* a group identifier looked for in the received sub-message only
extractGroupId_DataOnly(msg) == msg.DataGroupId

extractGroupId(msg) == IF msg.SentGroupId # <<>> THEN msg.SentGroupId ELSE msg.DataGroupId

\* a recipient that is always the envelope's source
getRecipient_SourceOnly(msg) == msg.Source

getRecipient(msg) ==
    IF extractGroupId(msg) # <<>> THEN <<"-", "g", " ">> \o extractGroupId(msg)
    ELSE msg.Source

(***************************************************************************)
(* Trigger matcher                                                         *)
(***************************************************************************)
\* a match on the trigger word alone, without its separator
isTriggered_NoSeparator(content) ==
    \E i \in 1..Len(triggers) :
        HasPrefix(content, SubSeq(triggers[i], 1, Len(triggers[i]) - 1))

isTriggered(content) == \E i \in 1..Len(triggers) : HasPrefix(content, triggers[i])

\* the last trigger of the list that matches is the one removed
extractPrompt_LastMatch(content) ==
    LET hits == {i \in 1..Len(triggers) : HasPrefix(content, triggers[i])}
        last == CHOOSE i \in hits : \A j \in hits : j <= i
    IN  IF hits = {} THEN content
        ELSE TrimSpace(TrimPrefix(content, triggers[last]))

\* a prompt left untrimmed
extractPrompt_NoTrim(content) ==
    LET hits == {i \in 1..Len(triggers) : HasPrefix(content, triggers[i])}
        first == CHOOSE i \in hits : \A j \in hits : i <= j
    IN  IF hits = {} THEN content ELSE TrimPrefix(content, triggers[first])

extractPrompt(content) ==
    LET hits == {i \in 1..Len(triggers) : HasPrefix(content, triggers[i])}
        first == CHOOSE i \in hits : \A j \in hits : i <= j
    IN  IF hits = {} THEN content
        ELSE TrimSpace(TrimPrefix(content, triggers[first]))

(***************************************************************************)
(* The texts and the AI_PREFIX settings the matcher is tried on: every     *)
(* opening followed by every short tail.                                   *)
(***************************************************************************)
Hello == <<"h", "e", "l", "l", "o">>

Openings ==
    {<<>>, <<" ">>,
     <<"q", "q", " ">>, <<"Q", "Q", " ">>, <<"Q", "q", " ">>, <<"q", "Q", " ">>,
     <<"q", "q">>, <<"Q", "Q", "u", " ">>, <<"q", "q", "u", " ">>,
     <<"!", "a", "i", " ">>, <<"!", "a", "i">>, <<"!", "A", "I", " ">>,
     <<"!", "a", "i", "u", "s", "e", " ">>, <<"!", "c", "o", "d", "e", " ">>,
     <<"robot", " ">>, <<"robot">>,
     <<" ", "q", "q", " ">>, <<" ", "!", "a", "i", " ">>,
     <<"q", "q", " ", "q", "q", " ">>, <<"q", "q", " ", "h", " ">>,
     <<"q", "q", " ", "!", "a", "i", " ">>, <<"!", "a", "i", " ", "q", "q", " ">>,
     <<"robot", " ", "q", "q", " ">>}

Tails(n) == UNION {[1..k -> {"h", "q", " "}] : k \in 0..n} \cup {Hello}

MatcherTexts == {o \o t : o \in Openings, t \in Tails(MaxTail)}

\* AI_PREFIX unset; set to another trigger's word; set to a text that begins
\* with another trigger; set to the empty string; set to a part of "!ai"
Prefixes ==
    {AIPrefix, <<"q", "q">>, <<"robot">>, <<"q", "q", " ", "h">>, <<>>, <<"!", "a">>}

(***************************************************************************)
(* sendReply: the signal-cli send command it builds                        *)
(***************************************************************************)
\* fmt.Sprintf("_%s_", text)
Italic(text) == <<"_">> \o text \o <<"_">>

\* a send that quotes whatever it is given
sendReply_AlwaysQuotes(recipient, text, quoteMsgId, quoteAuthor) ==
    LET isGroup == HasPrefix(recipient, <<"-", "g", " ">>)
    IN  [g  |-> IF isGroup THEN TrimPrefix(recipient, <<"-", "g", " ">>) ELSE <<>>,
         to |-> IF isGroup THEN <<>> ELSE recipient,
         m  |-> Italic(text),
         quoteTimestamp |-> FormatInt(quoteMsgId),
         quoteAuthor    |-> quoteAuthor]

\* the arguments of signal-cli send: quoted when the timestamp and author are known
sendReply(recipient, text, quoteMsgId, quoteAuthor) ==
    LET isGroup == HasPrefix(recipient, <<"-", "g", " ">>)
        quoted  == quoteMsgId > 0 /\ quoteAuthor # <<>>
    IN  [g  |-> IF isGroup THEN TrimPrefix(recipient, <<"-", "g", " ">>) ELSE <<>>,
         to |-> IF isGroup THEN <<>> ELSE recipient,
         m  |-> Italic(text),
         quoteTimestamp |-> IF quoted THEN FormatInt(quoteMsgId) ELSE <<>>,
         quoteAuthor    |-> IF quoted THEN quoteAuthor ELSE <<>>]

(***************************************************************************)
(* callAgent: the ways the completion request ends                         *)
(***************************************************************************)
\* the transport fails; the service answers with a status that is not 200;
\* the body of a 200 does not decode; the context is cancelled
Failures == {"transport", "400", "404", "500", "decode", "canceled"}

Outcomes == {"ok"} \cup Failures

\* worker, Ziggy.onRequest: the statuses it may answer a POST carrying this
\* prompt with: 400 "Invalid prompt" for an empty one, else 200, or 500 when
\* respond throws
onRequest(p) == IF p = <<>> THEN {"400"} ELSE {"200", "500"}

\* the ways a request with this prompt may end: a 200, a 400 and a 500 are
\* the worker's; a 404 is the answer of an address that does not route to it
Answers(p) ==
    {o \in Outcomes : /\ o \in {"ok", "decode"} => "200" \in onRequest(p)
                      /\ o \in {"400", "500"} => o \in onRequest(p)}

\* the text the completion service answers with
AgentText == <<"4">>

Apology == <<"Sorry, I encountered an error processing your request.">>

\* a reply that carries the error's own text
replyText_RawError(outcome) == IF outcome = "ok" THEN AgentText ELSE <<outcome>>

\* processMessage, after callAgent returned: the reply text
replyText(outcome) == IF outcome = "ok" THEN AgentText ELSE Apology

(***************************************************************************)
(* Pending Correlation Table.  bot/main.go holds no such table (its        *)
(* processMessage answers every command at once and its Message struct     *)
(* declares no receipt), so the table is modelled from the design          *)
(* document: sections 3, 4.3 and 5.  The table is the set of its entries,  *)
(* each with the outbound timestamp it is keyed by, the prompt, the        *)
(* instant it was created and a serial number that tells one entry from    *)
(* the next under the same key.  Time is counted in minutes.               *)
(***************************************************************************)
\* time-to-live of an entry: 5 minutes
TTL == 5

\* the sweep timer's period: 60 seconds
SweepEvery == 1

Prompts == {<<"2", "+", "2">>, <<"s", "u", "m">>}

NoEntry == [ts |-> 0, prompt |-> <<>>, created |-> 0, id |-> 0]

\* put that adds the entry and leaves an older one under the same key
put_KeepOld(t, ts, p, at, id) ==
    t \cup {[ts |-> ts, prompt |-> p, created |-> at, id |-> id]}

\* put(timestamp, prompt): inserts or overwrites, records the creation instant
put(t, ts, p, at, id) ==
    {e \in t : e.ts # ts} \cup {[ts |-> ts, prompt |-> p, created |-> at, id |-> id]}

\* takeIfPresent, first half: the entry of the first acknowledged timestamp present
lookup(t, tss) ==
    LET hits == {i \in DOMAIN tss : \E e \in t : e.ts = tss[i]}
        first == CHOOSE i \in hits : \A k \in hits : i <= k
    IN  IF hits = {} THEN NoEntry ELSE CHOOSE e \in t : e.ts = tss[first]

\* a removal that removes nothing
remove_Nothing(t, keys) == t

\* takeIfPresent, second half, and the sweep: removal by key
remove(t, keys) == {e \in t : e.ts \notin keys}

\* an age test with its operands exchanged
expired_Reversed(t, at) == {e \in t : e.created - at > TTL}

\* sweepExpired(now): the entries whose age exceeds the TTL
expired(t, at) == {e \in t : at - e.created > TTL}

\* no mutual exclusion
mayEnter_Unguarded(lk) == TRUE

\* mutual exclusion of the dispatch path and the sweep path
mayEnter(lk) == lk = "free"

(***************************************************************************)
(* State of Run                                                            *)
(***************************************************************************)
VARIABLES
    pc,         \* where Run is: "start", "select", "receive", "range", "callAgent", "sendReply",
                \* "sendFailed", "sleep"; "returned" after it returned ctx.Err(),
                \* "failed" after it returned the configuration error
    cancelled,  \* ctx.Done() is closed
    wire,       \* the lines the last receive printed (kept to name what was processed)
    messages,   \* the slice receiveMessages returned
    idx,        \* position of the range loop in messages
    prompt,     \* processMessage's prompt while a completion call or a send is in flight
    reply,      \* processMessage's reply while the send is in flight
    calls,      \* this cycle's completion requests, each tagged with the position of its event
    sent,       \* this cycle's signal-cli send commands, tagged likewise
    results,    \* this cycle's completion results: for each request, whether it failed
    pull,       \* how the last receiveMessages ended: "none" before the first,
                \* "running", "failed", "empty", "batch"
    skipped     \* how many lines of the last receive were not JSON and were skipped

runVars ==
    <<pc, cancelled, wire, messages, idx, prompt, reply, calls, sent, results, pull, skipped>>

(***************************************************************************)
(* State of the Pending Correlation Table and of its two paths             *)
(***************************************************************************)
VARIABLES
    table,      \* the entries
    now,        \* the clock
    lastSweep,  \* the instant of the last sweep
    lock,       \* "free", or the path that is inside the table: "dispatch", "sweep"
    dpc,        \* the dispatch path: "idle", or "taking" between lookup and removal
    arg,        \* the acknowledged timestamps of the takeIfPresent in progress
    found,      \* the entry it looked up
    spc,        \* the sweep path: "idle", or "sweeping" between scan and removal
    scanned,    \* the expired entries the sweep in progress has found
    ops,        \* the last operations completed, with what they returned
    nextId,     \* serial number of the next entry
    servedN,    \* per serial number: how often takeIfPresent returned that entry
    sweptN      \* per serial number: how often a sweep purged that entry

tableVars ==
    <<table, now, lastSweep, lock, dpc, arg, found, spc, scanned, ops, nextId, servedN, sweptN>>

(***************************************************************************)
(* The matcher tried alone on one text                                     *)
(***************************************************************************)
VARIABLES
    input,      \* the text
    mpc,        \* "off"; or "new", "matched", "done" as the two functions are applied
    triggered,  \* what isTriggered returned for it
    promptOut   \* what extractPrompt returned for it

matcherVars == <<input, mpc, triggered, promptOut>>

(***************************************************************************)
(* The reply to one message, composed alone: extractContent, getRecipient  *)
(* and sendReply as processMessage chains them                             *)
(***************************************************************************)
VARIABLES
    envelope,   \* the Message
    rpc,        \* "off"; or "new", "picked", "addressed", "built" as the functions are applied
    picked,     \* what extractContent returned
    addressee,  \* what getRecipient returned
    command     \* the signal-cli send command sendReply built

replyVars == <<envelope, rpc, picked, addressee, command>>

(***************************************************************************)
(* The worker's tool getHackerNewsTop                                      *)
(***************************************************************************)
\* the most stories the newstories list holds here
MaxIds == 152

\* limit = 10 when the argument is undefined
DefaultLimit == 10

\* Math.min(limit, 20)
MaxLimit == 20

\* Math.min(150, storyIds.length)
ScanLimit == 150

\* 12 * 60 * 60 seconds, in hours
Window == 12

Min(a, b) == IF a < b THEN a ELSE b

Max(a, b) == IF a > b THEN a ELSE b

\* Array.prototype.slice(0, end): a negative end counts from the end
Slice(s, end) ==
    LET n  == Len(s)
        to == IF end < 0 THEN Max(n + end, 0) ELSE Min(end, n)
    IN  SubSeq(s, 1, to)

\* the item the API returns for storyIds[i] of n: whether the fetch is ok,
\* whether the body is null, its age in hours, type, score and title
Item(shape, i, n, staleFrom) ==
    [id      |-> i,
     ok      |-> shape # "mixed" \/ i % 7 # 3,
     isNull  |-> shape = "mixed" /\ i % 13 = 9,
     age     |-> IF staleFrom > 0 /\ i >= staleFrom THEN Window + 1 ELSE 1,
     isStory |-> shape # "mixed" \/ i % 5 # 4,
     score   |-> CASE shape = "rising"  -> i
                   [] shape = "falling" -> n + 1 - i
                   [] OTHER             -> (i * 3) % 4,
     titled  |-> shape # "mixed" \/ i % 11 # 6]

Shapes == {"rising", "falling", "mixed"}

\* newstories.json and the items behind it
Feeds ==
    { [i \in 1..n |-> Item(shape, i, n, staleFrom)] :
        n \in {0, 1, MaxLimit + 1, MaxLimit + 2, ScanLimit, MaxIds},
        shape \in Shapes, staleFrom \in {0, 3, MaxLimit + 2} }

\* the limit argument: <<>> when undefined
Limits ==
    {<<>>} \cup { <<n>> : n \in {-1, 0, 1, DefaultLimit, MaxLimit, MaxLimit + 1} }

\* the loop over the first ids: an item whose fetch fails or whose body is
\* null is skipped, the first item past the time window ends the loop, and
\* the stories with a score and a title before it are pushed in order
recentStories(ids) ==
    LET last    == Min(ScanLimit, Len(ids))
        read(i) == ids[i].ok /\ ~ids[i].isNull
        breaks  == {i \in 1..last : read(i) /\ ids[i].age > Window}
        stop    == IF breaks = {} THEN last + 1
                   ELSE CHOOSE i \in breaks : \A j \in breaks : i <= j
        pushed  == SelectSeq(SubSeq(ids, 1, stop - 1),
                             LAMBDA story : /\ story.ok /\ ~story.isNull
                                            /\ story.isStory /\ story.score > 0
                                            /\ story.titled)
    IN  [k \in 1..Len(pushed) |-> [id |-> pushed[k].id, score |-> pushed[k].score]]

\* recentStories.sort((a, b) => b.score - a.score).slice(0, maxLimit)
topStories(ids, lim) ==
    LET maxLimit == Min(IF lim = <<>> THEN DefaultLimit ELSE lim[1], MaxLimit)
    IN  Slice(SortSeq(recentStories(ids), LAMBDA a, b : a.score > b.score),
              maxLimit)

VARIABLES
    limitArg,   \* the tool's limit argument
    storyIds,   \* the list the API serves
    listOk,     \* response.ok of the list fetch
    npc,        \* "off"; or "new", "done" around execute
    articles,   \* the articles returned
    totalFound, \* recentStories.length
    errored     \* the error object was returned

newsVars == <<limitArg, storyIds, listOk, npc, articles, totalFound, errored>>

vars == <<config, runVars, tableVars, matcherVars, replyVars, newsVars>>

\* what a step of Run, of the table, of the matcher, of the reply leaves alone
besideRun == <<config, tableVars, matcherVars, replyVars, newsVars>>

besideTable == <<config, runVars, matcherVars, replyVars, newsVars>>

besideMatcher == <<config, runVars, tableVars, replyVars, newsVars>>

besideReply == <<config, runVars, tableVars, matcherVars, newsVars>>

besideNews == <<config, runVars, tableVars, matcherVars, replyVars>>

RunInit ==
    /\ pc = "start"
    /\ cancelled = FALSE
    /\ wire = <<>>
    /\ messages = <<>>
    /\ idx = 1
    /\ prompt = <<>>
    /\ reply = <<>>
    /\ calls = <<>>
    /\ sent = <<>>
    /\ results = <<>>
    /\ pull = "none"
    /\ skipped = 0

\* the shutdown signal: main's goroutine calls cancel()
Cancel ==
    /\ pc \notin {"returned", "failed"}
    /\ ~cancelled
    /\ cancelled' = TRUE
    /\ UNCHANGED <<pc, wire, messages, idx, prompt, reply, calls, sent, results, pull, skipped>>

\* Run validates the configuration: it returns the error, or starts the ticker
Start ==
    /\ pc = "start"
    /\ pc' = IF validateConfig = "nil" THEN "select" ELSE "failed"
    /\ UNCHANGED <<cancelled, wire, messages, idx, prompt, reply, calls, sent, results,
                   pull, skipped>>

\* Run's select takes the ctx.Done() case
SelectDone ==
    /\ pc = "select"
    /\ cancelled
    /\ pc' = "returned"
    /\ UNCHANGED <<cancelled, wire, messages, idx, prompt, reply, calls, sent, results,
                   pull, skipped>>

\* Run's select takes the ticker case: receiveMessages starts signal-cli
\* receive and waits for it to exit
SelectTick ==
    /\ pc = "select"
    /\ pc' = "receive"
    /\ pull' = "running"
    /\ UNCHANGED <<cancelled, wire, messages, idx, prompt, reply, calls, sent, results,
                   skipped>>

\* a failed receive that ends Run
ReceiveFails_Exits ==
    /\ pc = "receive"
    /\ pc' = "returned"
    /\ pull' = "failed"
    /\ skipped' = 0
    /\ UNCHANGED <<cancelled, wire, messages, idx, prompt, reply, calls, sent, results>>

\* receiveMessages returns an error (signal-cli exits with an error, or the
\* scanner stops on one)
ReceiveFails ==
    /\ pc = "receive"
    /\ pc' = "select"
    /\ pull' = "failed"
    /\ skipped' = 0
    /\ UNCHANGED <<cancelled, wire, messages, idx, prompt, reply, calls, sent, results>>

\* receiveMessages returns the lines that are JSON, in the order signal-cli
\* printed them; a line that is not JSON is logged and skipped, wherever it
\* stands
Receive ==
    /\ pc = "receive"
    /\ \E batch \in Batches(MaxBatch), junk \in 0..MaxBatch :
        /\ Len(batch) + junk <= MaxBatch
        /\ wire' = batch
        /\ skipped' = junk
        /\ messages' = [i \in 1..Len(batch) |-> Unmarshal(batch[i])]
        /\ pc' = IF Len(batch) = 0 THEN "select" ELSE "range"
        /\ pull' = IF Len(batch) = 0 THEN "empty" ELSE "batch"
    /\ UNCHANGED <<cancelled, idx, prompt, reply, calls, sent, results>>

\* the range loop is over: the pause after a batch begins
RangeEnd ==
    /\ pc = "range"
    /\ idx > Len(messages)
    /\ pc' = "sleep"
    /\ UNCHANGED <<cancelled, wire, messages, idx, prompt, reply, calls, sent, results,
                   pull, skipped>>

\* an inner select that goes on to the next event
RangeCancelled_Skips ==
    /\ pc = "range"
    /\ idx <= Len(messages)
    /\ cancelled
    /\ idx' = idx + 1
    /\ UNCHANGED <<pc, cancelled, wire, messages, prompt, reply, calls, sent, results,
                   pull, skipped>>

\* the inner select finds ctx.Done() closed
RangeCancelled ==
    /\ pc = "range"
    /\ idx <= Len(messages)
    /\ cancelled
    /\ pc' = "returned"
    /\ UNCHANGED <<cancelled, wire, messages, idx, prompt, reply, calls, sent, results,
                   pull, skipped>>

\* a processMessage that sends the prompt as it is, empty or not
processMessage_NoEmptyCheck ==
    /\ pc = "range"
    /\ idx <= Len(messages)
    /\ ~cancelled
    /\ LET msg     == messages[idx]
           content == extractContent(msg)
       IN  IF content = <<>> \/ ~isTriggered(content)
           THEN /\ idx' = idx + 1
                /\ UNCHANGED <<pc, prompt, calls>>
           ELSE /\ prompt' = extractPrompt(content)
                /\ calls' = Append(calls, [ev |-> idx, prompt |-> extractPrompt(content)])
                /\ pc' = "callAgent"
                /\ UNCHANGED idx
    /\ UNCHANGED <<cancelled, wire, messages, reply, sent, results, pull, skipped>>

\* a processMessage that starts the completion request and returns at once
processMessage_Async ==
    /\ pc = "range"
    /\ idx <= Len(messages)
    /\ ~cancelled
    /\ LET msg     == messages[idx]
           content == extractContent(msg)
       IN  IF content = <<>> \/ ~isTriggered(content) \/ extractPrompt(content) = <<>>
           THEN UNCHANGED <<prompt, calls>>
           ELSE /\ prompt' = extractPrompt(content)
                /\ calls' = Append(calls, [ev |-> idx, prompt |-> extractPrompt(content)])
    /\ idx' = idx + 1
    /\ UNCHANGED <<pc, cancelled, wire, messages, reply, sent, results, pull, skipped>>

\* processMessage up to the completion request
processMessage ==
    /\ pc = "range"
    /\ idx <= Len(messages)
    /\ ~cancelled
    /\ LET msg     == messages[idx]
           content == extractContent(msg)
       IN  IF content = <<>> \/ ~isTriggered(content) \/ extractPrompt(content) = <<>>
           THEN /\ idx' = idx + 1
                /\ UNCHANGED <<pc, prompt, calls>>
           ELSE /\ prompt' = extractPrompt(content)
                /\ calls' = Append(calls, [ev |-> idx, prompt |-> extractPrompt(content)])
                /\ pc' = "callAgent"
                /\ UNCHANGED idx
    /\ UNCHANGED <<cancelled, wire, messages, reply, sent, results, pull, skipped>>

\* callAgent returns and processMessage starts the send.  The request is
\* bound to ctx: once ctx is cancelled the client may return its error, or
\* the response if that is ready too
callAgent ==
    /\ pc = "callAgent"
    /\ \E outcome \in (IF cancelled THEN Answers(prompt)
                        ELSE Answers(prompt) \ {"canceled"}) :
        LET msg  == messages[idx]
            text == replyText(outcome)
        IN  /\ reply' = text
            /\ results' = Append(results, [ev |-> idx, failed |-> outcome # "ok",
                                           canceled |-> outcome = "canceled",
                                           invalid |-> outcome = "400"])
            /\ sent' = Append(sent,
                   [ev |-> idx,
                    cmd |-> sendReply(getRecipient(msg), text, msg.Timestamp, msg.Source)])
    /\ pc' = "sendReply"
    /\ UNCHANGED <<cancelled, wire, messages, idx, prompt, calls, pull, skipped>>

\* signal-cli send ends well and processMessage returns
sendReplyReturns ==
    /\ pc = "sendReply"
    /\ idx' = idx + 1
    /\ pc' = "range"
    /\ prompt' = <<>>
    /\ reply' = <<>>
    /\ UNCHANGED <<cancelled, wire, messages, calls, sent, results, pull, skipped>>

\* signal-cli send fails: sendReply returns the error to processMessage
sendReplyFails ==
    /\ pc = "sendReply"
    /\ pc' = "sendFailed"
    /\ UNCHANGED <<cancelled, wire, messages, idx, prompt, reply, calls, sent, results,
                   pull, skipped>>

\* a failed send that ends Run
logSendError_Returns ==
    /\ pc = "sendFailed"
    /\ pc' = "returned"
    /\ UNCHANGED <<cancelled, wire, messages, idx, prompt, reply, calls, sent, results,
                   pull, skipped>>

\* a failed send that is tried again
logSendError_Retries ==
    /\ pc = "sendFailed"
    /\ pc' = "sendReply"
    /\ sent' = Append(sent, sent[Len(sent)])
    /\ UNCHANGED <<cancelled, wire, messages, idx, prompt, reply, calls, results,
                   pull, skipped>>

\* processMessage logs the failed send and returns
logSendError ==
    /\ pc = "sendFailed"
    /\ idx' = idx + 1
    /\ pc' = "range"
    /\ prompt' = <<>>
    /\ reply' = <<>>
    /\ UNCHANGED <<cancelled, wire, messages, calls, sent, results, pull, skipped>>

\* time.Sleep(1 * time.Second) after a batch; the batch goes out of scope
Sleep ==
    /\ pc = "sleep"
    /\ pc' = "select"
    /\ wire' = <<>>
    /\ messages' = <<>>
    /\ idx' = 1
    /\ calls' = <<>>
    /\ sent' = <<>>
    /\ results' = <<>>
    /\ skipped' = 0
    /\ UNCHANGED <<cancelled, prompt, reply, pull>>

(***************************************************************************)
(* The table's operations, as the dispatch path and the sweep timer run    *)
(* them.                                                                   *)
(***************************************************************************)
TableInit ==
    /\ table = {}
    /\ now = 0
    /\ lastSweep = 0
    /\ lock = "free"
    /\ dpc = "idle"
    /\ arg = <<>>
    /\ found = NoEntry
    /\ spc = "idle"
    /\ scanned = {}
    /\ ops = <<>>
    /\ nextId = 1
    /\ servedN = [i \in 1..MaxPuts |-> 0]
    /\ sweptN = [i \in 1..MaxPuts |-> 0]

\* the window of the last three operations
Remember(op) == IF Len(ops) < 3 THEN Append(ops, op) ELSE Append(Tail(ops), op)

\* the acknowledged-timestamp lists of receipts
AckLists == {<<999>>, <<1000>>, <<999, 1000>>}

\* a minute passes; the sweep timer has fired by then
Tick ==
    /\ now < MaxTime
    /\ dpc = "idle" /\ spc = "idle"
    /\ now < lastSweep + SweepEvery
    /\ now' = now + 1
    /\ UNCHANGED <<table, lastSweep, lock, dpc, arg, found, spc, scanned, ops, nextId,
                   servedN, sweptN>>

\* the dispatch path stores the prompt of a reflected individual command
Put ==
    /\ dpc = "idle"
    /\ mayEnter(lock)
    /\ nextId <= MaxPuts
    /\ \E ts \in Timestamps, p \in Prompts :
        /\ table' = put(table, ts, p, now, nextId)
        /\ ops' = Remember([op |-> "put", ts |-> ts, prompt |-> p, at |-> now])
    /\ nextId' = nextId + 1
    /\ UNCHANGED <<now, lastSweep, lock, dpc, arg, found, spc, scanned, servedN, sweptN>>

\* takeIfPresent enters the table and looks the timestamps up
TakeLookup ==
    /\ dpc = "idle"
    /\ mayEnter(lock)
    /\ \E tss \in AckLists :
        /\ arg' = tss
        /\ found' = lookup(table, tss)
    /\ lock' = "dispatch"
    /\ dpc' = "taking"
    /\ UNCHANGED <<table, now, lastSweep, spc, scanned, ops, nextId, servedN, sweptN>>

\* takeIfPresent removes what it found, leaves the table and returns the prompt
TakeRemove ==
    /\ dpc = "taking"
    /\ table' = IF found = NoEntry THEN table ELSE remove(table, {found.ts})
    /\ servedN' = IF found = NoEntry THEN servedN
                  ELSE [servedN EXCEPT ![found.id] = @ + 1]
    /\ ops' = Remember([op |-> "take", tss |-> arg, result |-> found.prompt])
    /\ lock' = "free"
    /\ dpc' = "idle"
    /\ arg' = <<>>
    /\ found' = NoEntry
    /\ UNCHANGED <<now, lastSweep, spc, scanned, nextId, sweptN>>

\* the sweep timer fired: sweepExpired enters the table and scans it
SweepScan ==
    /\ spc = "idle"
    /\ now >= lastSweep + SweepEvery
    /\ mayEnter(lock)
    /\ scanned' = expired(table, now)
    /\ lock' = "sweep"
    /\ spc' = "sweeping"
    /\ UNCHANGED <<table, now, lastSweep, dpc, arg, found, ops, nextId, servedN, sweptN>>

\* sweepExpired removes the expired entries and leaves the table
SweepRemove ==
    /\ spc = "sweeping"
    /\ table' = remove(table, {e.ts : e \in scanned})
    /\ sweptN' = [i \in 1..MaxPuts |->
                    IF \E e \in scanned : e.id = i THEN sweptN[i] + 1 ELSE sweptN[i]]
    /\ ops' = Remember([op |-> "sweep", at |-> now, purged |-> {e.ts : e \in scanned}])
    /\ lastSweep' = now
    /\ lock' = "free"
    /\ spc' = "idle"
    /\ scanned' = {}
    /\ UNCHANGED <<now, dpc, arg, found, nextId, servedN>>

\* NewSignalBot with AI_PREFIX unset, and AGENT_URL unset or set
ConfigInit == config \in [AIPrefix : {AIPrefix}, AgentURL : AgentURLs]

MatcherOff ==
    /\ input = <<>>
    /\ mpc = "off"
    /\ triggered = FALSE
    /\ promptOut = <<>>

\* a text is handed to the matcher of a bot built with some AI_PREFIX
MatcherInit ==
    /\ config \in [AIPrefix : Prefixes, AgentURL : {AgentURL}]
    /\ input \in MatcherTexts
    /\ mpc = "new"
    /\ triggered = FALSE
    /\ promptOut = <<>>

\* isTriggered is called on the text
Match ==
    /\ mpc = "new"
    /\ triggered' = isTriggered(input)
    /\ mpc' = "matched"
    /\ UNCHANGED <<input, promptOut>>

\* extractPrompt is called on the text
Extract ==
    /\ mpc = "matched"
    /\ promptOut' = extractPrompt(input)
    /\ mpc' = "done"
    /\ UNCHANGED <<input, triggered>>

\* no command before sendReply has built one
NoCommand ==
    [g |-> <<>>, to |-> <<>>, m |-> <<>>, quoteTimestamp |-> <<>>, quoteAuthor |-> <<>>]

\* the Message values json.Unmarshal can produce: either sub-message with or
\* without a text and a group, a timestamp that is 0 when the line has none,
\* a source that is empty when the line has none
Messages ==
    [Source : {<<>>, Peer}, Timestamp : {0} \cup Timestamps,
     SentMessage : {<<>>, TextAsk}, SentGroupId : {<<>>, <<"G", "1">>},
     DataMessage : {<<>>, TextRobot}, DataGroupId : {<<>>, <<"G", "2">>}]

ReplyOff ==
    /\ envelope = Unmarshal(EmptyLine)
    /\ rpc = "off"
    /\ picked = <<>>
    /\ addressee = <<>>
    /\ command = NoCommand

ReplyInit ==
    /\ envelope \in Messages
    /\ rpc = "new"
    /\ picked = <<>>
    /\ addressee = <<>>
    /\ command = NoCommand

\* content := msg.extractContent()
Pick ==
    /\ rpc = "new"
    /\ picked' = extractContent(envelope)
    /\ rpc' = "picked"
    /\ UNCHANGED <<envelope, addressee, command>>

\* recipient := msg.getRecipient()
Address ==
    /\ rpc = "picked"
    /\ addressee' = getRecipient(envelope)
    /\ rpc' = "addressed"
    /\ UNCHANGED <<envelope, picked, command>>

\* bot.sendReply(recipient, reply, msg.Envelope.Timestamp, quoteAuthor)
Build ==
    /\ rpc = "addressed"
    /\ command' = sendReply(addressee, AgentText, envelope.Timestamp, envelope.Source)
    /\ rpc' = "built"
    /\ UNCHANGED <<envelope, picked, addressee>>

NewsOff ==
    /\ limitArg = <<>>
    /\ storyIds = <<>>
    /\ listOk = TRUE
    /\ npc = "off"
    /\ articles = <<>>
    /\ totalFound = 0
    /\ errored = FALSE

NewsInit ==
    /\ limitArg \in Limits
    /\ storyIds \in Feeds
    /\ listOk \in BOOLEAN
    /\ npc = "new"
    /\ articles = <<>>
    /\ totalFound = 0
    /\ errored = FALSE

\* getHackerNewsTop.execute({ limit })
execute ==
    /\ npc = "new"
    /\ npc' = "done"
    /\ IF listOk
       THEN /\ articles' = topStories(storyIds, limitArg)
            /\ totalFound' = Len(recentStories(storyIds))
            /\ errored' = FALSE
       ELSE /\ errored' = TRUE
            /\ UNCHANGED <<articles, totalFound>>
    /\ UNCHANGED <<limitArg, storyIds, listOk>>

Init == ConfigInit /\ RunInit /\ TableInit /\ MatcherOff /\ ReplyOff /\ NewsOff

Next ==
    \/ Cancel /\ UNCHANGED besideRun
    \/ Start /\ UNCHANGED besideRun
    \/ SelectDone /\ UNCHANGED besideRun
    \/ SelectTick /\ UNCHANGED besideRun
    \/ ReceiveFails /\ UNCHANGED besideRun
    \/ Receive /\ UNCHANGED besideRun
    \/ RangeEnd /\ UNCHANGED besideRun
    \/ RangeCancelled /\ UNCHANGED besideRun
    \/ processMessage /\ UNCHANGED besideRun
    \/ callAgent /\ UNCHANGED besideRun
    \/ sendReplyReturns /\ UNCHANGED besideRun
    \/ sendReplyFails /\ UNCHANGED besideRun
    \/ logSendError /\ UNCHANGED besideRun
    \/ Sleep /\ UNCHANGED besideRun

\* the program of bot/main.go
Spec == Init /\ [][Next]_vars

\* the steps that are Run's own or are bounded: the ticker fires every five
\* seconds, the pause lasts a second, the completion request has the
\* client's 30 s timeout.  The two signal-cli subprocesses (receive, send)
\* are run with no timeout and no context, and are not among them.
Bounded ==
    \/ Start
    \/ SelectDone
    \/ SelectTick
    \/ RangeEnd
    \/ RangeCancelled
    \/ processMessage
    \/ callAgent
    \/ logSendError
    \/ Sleep

\* the program of bot/main.go, with every bounded step taken in the end
SpecLive ==
    Init /\ [][Next]_vars
         /\ WF_vars(Bounded /\ UNCHANGED besideRun)

TableNext ==
    \/ Tick /\ UNCHANGED besideTable
    \/ Put /\ UNCHANGED besideTable
    \/ TakeLookup /\ UNCHANGED besideTable
    \/ TakeRemove /\ UNCHANGED besideTable
    \/ SweepScan /\ UNCHANGED besideTable
    \/ SweepRemove /\ UNCHANGED besideTable

\* the Pending Correlation Table under its callers
InitTable ==
    /\ config = [AIPrefix |-> AIPrefix, AgentURL |-> AgentURL]
    /\ RunInit /\ TableInit /\ MatcherOff /\ ReplyOff /\ NewsOff

SpecTable == InitTable /\ [][TableNext]_vars

MatcherNext ==
    \/ Match /\ UNCHANGED besideMatcher
    \/ Extract /\ UNCHANGED besideMatcher

\* isTriggered and extractPrompt on every text, under every AI_PREFIX
InitMatcher == MatcherInit /\ RunInit /\ TableInit /\ ReplyOff /\ NewsOff

SpecMatcher == InitMatcher /\ [][MatcherNext]_vars

ReplyNext ==
    \/ Pick /\ UNCHANGED besideReply
    \/ Address /\ UNCHANGED besideReply
    \/ Build /\ UNCHANGED besideReply

\* the reply to every Message, with AI_PREFIX and AGENT_URL as in Init
InitReply ==
    /\ config = [AIPrefix |-> AIPrefix, AgentURL |-> AgentURL]
    /\ RunInit /\ TableInit /\ MatcherOff /\ ReplyInit /\ NewsOff

SpecReply == InitReply /\ [][ReplyNext]_vars

NewsNext == execute /\ UNCHANGED besideNews

\* one call of the tool for every limit and feed
InitNews ==
    /\ config = [AIPrefix |-> AIPrefix, AgentURL |-> AgentURL]
    /\ RunInit /\ TableInit /\ MatcherOff /\ ReplyOff /\ NewsInit

SpecNews == InitNews /\ [][NewsNext]_vars

(***************************************************************************)
(* Vocabulary of the properties: the classification of a line, the texts   *)
(* that are commands with the prompt each carries, and what was done for   *)
(* the event at a position of the batch.                                   *)
(***************************************************************************)
IsReceipt(line) == line.receiptTimestamps # <<>> /\ line.isDelivery

IsReflected(line) == line.sentMessage # <<>>

IsReceived(line) == line.sentMessage = <<>> /\ line.dataMessage # <<>>

\* the texts that are triggered and leave a prompt
Commands == {TextAsk, TextRobot}

PromptOf(text) == IF text = TextAsk THEN <<"2", "+", "2">> ELSE <<"s", "u", "m">>

CallsFor(j) == {k \in DOMAIN calls : calls[k].ev = j}

SentFor(j) == {k \in DOMAIN sent : sent[k].ev = j}

\* the event at position j has been processed to the end
Processed(j) == j \in DOMAIN wire /\ j < idx

\* one send for event j, to an individual address
RepliedTo(j, address, text, ts, author) ==
    /\ Cardinality(SentFor(j)) = 1
    /\ \A k \in SentFor(j) :
        sent[k].cmd = [g |-> <<>>, to |-> address, m |-> <<"_">> \o text \o <<"_">>,
                       quoteTimestamp |-> ts, quoteAuthor |-> author]

\* one send for event j, to a group
RepliedToGroup(j, gid, text, ts, author) ==
    /\ Cardinality(SentFor(j)) = 1
    /\ \A k \in SentFor(j) :
        sent[k].cmd = [g |-> gid, to |-> <<>>, m |-> <<"_">> \o text \o <<"_">>,
                       quoteTimestamp |-> ts, quoteAuthor |-> author]

\* one completion request for event j, with this prompt
CalledWith(j, p) ==
    /\ Cardinality(CallsFor(j)) = 1
    /\ \A k \in CallsFor(j) : calls[k].prompt = p

Decimal(ts) == IF ts = 999 THEN <<"9", "9", "9">> ELSE <<"1", "0", "0", "0">>

\* the pending correlations the specification describes after the first n
\* lines of the batch: a reflected individual command stores its prompt under
\* its timestamp, a delivery receipt consumes the first one it acknowledges
FirstHit(tss, keys) ==
    LET hits == {i \in DOMAIN tss : tss[i] \in keys}
    IN  IF hits = {} THEN 0 ELSE tss[CHOOSE i \in hits : \A k \in hits : i <= k]

RECURSIVE PendingAfter(_)
PendingAfter(n) ==
    IF n = 0 THEN [ts \in {} |-> <<>>]
    ELSE LET prev == PendingAfter(n - 1)
             line == wire[n]
             hit  == FirstHit(line.receiptTimestamps, DOMAIN prev)
         IN  IF IsReceipt(line)
             THEN [ts \in DOMAIN prev \ {hit} |-> prev[ts]]
             ELSE IF IsReflected(line) /\ line.sentMessage \in Commands
                     /\ line.sentGroupId = <<>>
             THEN [ts \in DOMAIN prev \cup {line.timestamp} |->
                      IF ts = line.timestamp THEN PromptOf(line.sentMessage) ELSE prev[ts]]
             ELSE prev

(***************************************************************************)
(* C1: a reflected command with no group identifier causes no completion   *)
(* request and no send when it is processed; its prompt only waits for a   *)
(* delivery receipt.                                                       *)
(***************************************************************************)
C1_ReflectedIndividualDeferred ==
    \A j \in DOMAIN wire :
        (IsReflected(wire[j]) /\ wire[j].sentMessage \in Commands /\ wire[j].sentGroupId = <<>>)
        => (CallsFor(j) = {} /\ SentFor(j) = {})

(***************************************************************************)
(* C2: a processed delivery receipt from S that acknowledges a pending     *)
(* timestamp causes exactly one completion request, with the stored        *)
(* prompt, and exactly one reply to S quoting that timestamp with S as     *)
(* author.                                                                 *)
(***************************************************************************)
C2_ReceiptResolvesPending ==
    \A j \in DOMAIN wire :
        LET pending == PendingAfter(j - 1)
            hit     == FirstHit(wire[j].receiptTimestamps, DOMAIN pending)
        IN  (Processed(j) /\ IsReceipt(wire[j]) /\ hit # 0)
            => /\ CalledWith(j, pending[hit])
               /\ \E text \in {AgentText, Apology} :
                     RepliedTo(j, wire[j].source, text, Decimal(hit), wire[j].source)

BareAt(j) ==
    j \in DOMAIN wire /\ (wire[j].sentMessage = TextBare
                          \/ (wire[j].sentMessage = <<>> /\ wire[j].dataMessage = TextBare))

C9_EmptyPromptNoOp ==
    /\ \A j \in DOMAIN wire : BareAt(j) => (CallsFor(j) = {} /\ SentFor(j) = {})
    /\ BareAt(idx) => pc \notin {"callAgent", "sendReply", "sendFailed"}

C9_Witness ==
    \E i, j \in DOMAIN wire :
        /\ Processed(i) /\ Processed(j)
        /\ IsReflected(wire[i]) /\ wire[i].sentMessage = TextBare
        /\ IsReceived(wire[j]) /\ wire[j].dataMessage = TextBare

(***************************************************************************)
(* C10: when the completion request fails, the event still gets exactly    *)
(* one send, with the apology as its text, to the recipient and with the   *)
(* quote a successful reply has.                                           *)
(***************************************************************************)
C10_FailureApologises ==
    \A r \in DOMAIN results :
        LET j    == results[r].ev
            line == wire[j]
            gid  == IF IsReflected(line) THEN line.sentGroupId ELSE line.dataGroupId
        IN  results[r].failed
            => IF gid # <<>>
               THEN RepliedToGroup(j, gid, Apology, Decimal(line.timestamp), line.source)
               ELSE RepliedTo(j, line.source, Apology, Decimal(line.timestamp), line.source)

C10_Witness ==
    \E r, q \in DOMAIN results :
        /\ results[r].failed /\ results[q].failed /\ r # q
        /\ Processed(results[r].ev) /\ Processed(results[q].ev)
        /\ wire[results[r].ev].dataGroupId # <<>>
        /\ wire[results[q].ev].dataGroupId = <<>>

(***************************************************************************)
(* Properties of the Pending Correlation Table (specification SpecTable).  *)
(* ops holds the last operations in the order they completed.              *)
(***************************************************************************)
LastOp(k) == ops[Len(ops) - k]

\* the last two operations are two takeIfPresent with the same timestamps
Replayed ==
    /\ Len(ops) >= 2
    /\ LastOp(0).op = "take" /\ LastOp(1).op = "take"
    /\ LastOp(0).tss = LastOp(1).tss

\* put(ts, p) and then takeIfPresent({ts}): p is returned and the entry is gone
PutThenTake ==
    (/\ Len(ops) >= 2
     /\ LastOp(1).op = "put" /\ LastOp(0).op = "take"
     /\ LastOp(0).tss = <<LastOp(1).ts>>)
    => /\ LastOp(0).result = LastOp(1).prompt
       /\ \A e \in table : e.ts # LastOp(1).ts

\* ... and a second takeIfPresent({ts}) returns nothing
PutThenTakeTwice ==
    (/\ Len(ops) = 3
     /\ ops[1].op = "put" /\ ops[2].op = "take" /\ ops[3].op = "take"
     /\ ops[2].tss = <<ops[1].ts>> /\ ops[3].tss = <<ops[1].ts>>)
    => ops[3].result = <<>>

C4_NoDoubleServe == \A i \in 1..MaxPuts : servedN[i] + sweptN[i] <= 1

\* takeIfPresent is inside the table with an expired entry while the sweep is due
C4_Witness ==
    /\ dpc = "taking" /\ found # NoEntry
    /\ now - found.created > TTL
    /\ spc = "idle" /\ now >= lastSweep + SweepEvery

C6_OneEntryPerTimestamp ==
    /\ \A e1, e2 \in table : e1.ts = e2.ts => e1 = e2
    /\ (Len(ops) >= 1 /\ LastOp(0).op = "put")
       => \E e \in table :
             /\ e.ts = LastOp(0).ts
             /\ e.prompt = LastOp(0).prompt
             /\ e.created = LastOp(0).at

\* two puts in a row under one timestamp, with different prompts, a minute apart
C6_Witness ==
    /\ Len(ops) >= 2
    /\ LastOp(0).op = "put" /\ LastOp(1).op = "put"
    /\ LastOp(0).ts = LastOp(1).ts
    /\ LastOp(0).prompt # LastOp(1).prompt
    /\ LastOp(0).at > LastOp(1).at

(***************************************************************************)
(* The trigger matcher (SpecMatcher)                                       *)
(***************************************************************************)
\* text begins with t, said without the strings package
Begins(text, t) == Len(t) <= Len(text) /\ \A i \in 1..Len(t) : text[i] = t[i]

\* r is s without its leading and trailing white space
IsTrimOf(r, s) ==
    \E a, b \in 0..Len(s) :
        /\ a + b <= Len(s)
        /\ r = SubSeq(s, a + 1, Len(s) - b)
        /\ \A i \in 1..a : IsSpace(s[i])
        /\ \A i \in (Len(s) - b + 1)..Len(s) : IsSpace(s[i])
        /\ r # <<>> => ~IsSpace(r[1]) /\ ~IsSpace(r[Len(r)])

\* "qq" in any mix of cases, then the separator
ShortAnyCase(text) ==
    /\ Len(text) >= 3
    /\ text[1] \in {"q", "Q"}
    /\ text[2] \in {"q", "Q"}
    /\ text[3] = " "

\* C11: the short trigger matches whatever the case of its two letters, as
\* long as the separator follows: "QQ hello", "qq hello" and the mixed forms
\* trigger, "QQu hello" does not.
C11_ShortTriggerAnyCase ==
    mpc # "new" =>
        /\ ShortAnyCase(input) => triggered
        /\ (input = <<"Q", "Q", "u", " ">> \o Hello /\ config.AIPrefix = AIPrefix)
              => ~triggered

\* C12: a text that begins with none of the triggers (separator included) is
\* not triggered and extractPrompt returns it as it is, untrimmed.
C12_NoMatchLeavesText ==
    (mpc = "done" /\ \A i \in DOMAIN triggers : ~Begins(input, triggers[i]))
        => ~triggered /\ promptOut = input

\* "!aiuse " and a tail: the trigger word without its separator
C12_Witness ==
    /\ mpc = "done"
    /\ config.AIPrefix = AIPrefix
    /\ input = <<"!", "a", "i", "u", "s", "e", " ", "h", " ">>
    /\ ~triggered
    /\ promptOut = input

\* C13: isTriggered says yes exactly when some trigger begins the text, and
\* then extractPrompt returns what follows the first such trigger of the
\* list, removed once, without its leading and trailing white space.
C13_FirstMatchWins ==
    mpc = "done" =>
        /\ triggered <=> \E i \in DOMAIN triggers : Begins(input, triggers[i])
        /\ triggered =>
              \E i \in DOMAIN triggers :
                  /\ Begins(input, triggers[i])
                  /\ \A j \in 1..(i - 1) : ~Begins(input, triggers[j])
                  /\ IsTrimOf(promptOut,
                              SubSeq(input, Len(triggers[i]) + 1, Len(input)))

\* AI_PREFIX is "qq h": the text "qq h q " begins with the second and with
\* the third trigger, and the second is the one removed
C13_Witness ==
    /\ mpc = "done"
    /\ config.AIPrefix = <<"q", "q", " ", "h">>
    /\ input = <<"q", "q", " ", "h", " ", "q", " ">>
    /\ triggered
    /\ promptOut = <<"h", " ", "q">>

(***************************************************************************)
(* The loop (Spec): shutdown, errors, order                                *)
(***************************************************************************)
InFlight == pc \in {"callAgent", "sendReply", "sendFailed"}

\* C14: when the shutdown signal has come while an event is in flight, the
\* event's dispatch goes on to its end and no completion request ends
\* because of the cancellation.
C14_InFlightEventFinishes ==
    [][(cancelled /\ InFlight /\ pc' # pc)
          => /\ pc' \in {"sendReply", "sendFailed", "range"}
             /\ \A k \in DOMAIN results' : ~results'[k].canceled]_vars

\* C15: from the shutdown signal on, the loop starts no receive.
C15_NoPullAfterShutdown ==
    [][cancelled => ~(pc = "select" /\ pc' = "receive")]_vars

\* C16: a completion request that fails is followed by the event's send, a
\* send that fails is followed by the next event of the same batch; the
\* batch is walked to its end, the pause is followed by the next select, and
\* Run returns from the loop only when cancelled.
C16_ErrorsContained ==
    [][/\ (pc = "callAgent" /\ pc' # pc /\ results'[Len(results')].failed)
            => (pc' = "sendReply" /\ idx' = idx /\ messages' = messages)
       /\ (pc = "sendFailed" /\ pc' # pc)
            => (pc' = "range" /\ idx' = idx + 1 /\ messages' = messages)
       /\ pc' = "sleep" => idx' = Len(messages') + 1
       /\ (pc = "sleep" /\ pc' # pc) => pc' = "select"
       /\ pc' = "returned" => cancelled']_vars

\* the first event's completion request failed, the second event was
\* processed all the same and its send has failed, with no shutdown
C16_Witness ==
    /\ pc = "sendFailed"
    /\ idx = 2
    /\ ~cancelled
    /\ \E r \in DOMAIN results : results[r].ev = 1 /\ results[r].failed

\* C17: the messages are the lines in the order received; completion
\* requests and sends are made in that order, for the current event or those
\* before it; the only request or send in flight is the current event's, and
\* the requests and sends of the events before it have ended.
C17_SequentialInOrder ==
    /\ Len(messages) = Len(wire)
    /\ \A i \in DOMAIN wire : messages[i] = Unmarshal(wire[i])
    /\ \A k \in DOMAIN calls :
        calls[k].ev <= idx /\ (k > 1 => calls[k - 1].ev < calls[k].ev)
    /\ \A k \in DOMAIN sent :
        sent[k].ev <= idx /\ (k > 1 => sent[k - 1].ev < sent[k].ev)
    /\ Len(calls) - Len(results) = IF pc = "callAgent" THEN 1 ELSE 0
    /\ pc = "callAgent" => calls[Len(calls)].ev = idx
    /\ \A k \in DOMAIN sent : sent[k].ev = idx <=> (k = Len(sent) /\ pc \in {"sendReply", "sendFailed"})

\* two events replied to, the first before the second
C17_Witness ==
    /\ pc = "sleep"
    /\ Len(sent) = 2
    /\ sent[1].ev = 1 /\ sent[2].ev = 2
    /\ sent[1].cmd # sent[2].cmd

\* C18: no event has more than one completion request or more than one
\* send; after a failed send the loop moves to the next event with nothing
\* sent again; and at the select nothing of a past event is kept.
C18_OneCallOneSend ==
    [][/\ \A j \in DOMAIN wire' :
            Cardinality(CallsFor(j))' <= 1 /\ Cardinality(SentFor(j))' <= 1
       /\ (pc = "sendFailed" /\ pc' # pc)
            => (sent' = sent /\ calls' = calls /\ idx' = idx + 1)
       /\ pc' = "select"
            => (messages' = <<>> /\ prompt' = <<>> /\ reply' = <<>> /\ sent' = <<>>)]_vars

\* the send for the first of two events has failed
C18_Witness ==
    /\ pc = "sendFailed"
    /\ idx = 1
    /\ Len(messages) = 2
    /\ Cardinality(CallsFor(1)) = 1
    /\ Cardinality(SentFor(1)) = 1

\* C19, as stated: a cycle whose receive met a subprocess failure or a
\* parsing failure processes no event, requests no completion and sends
\* nothing.
C19_FailedPullProcessesNothing ==
    (pull = "failed" \/ skipped > 0) => (idx = 1 /\ calls = <<>> /\ sent = <<>>)

\* C19, amended: when receiveMessages returns an error the cycle has no
\* message, no completion request and no send, and the loop is back at its
\* select unless it was cancelled.  (A line that is not JSON is not such an
\* error: it is skipped and the other lines are processed.)
C19_FailedPullSkipsCycle ==
    pull = "failed"
        => /\ pc \in {"select", "returned"}
           /\ pc = "returned" => cancelled
           /\ messages = <<>> /\ idx = 1
           /\ calls = <<>> /\ sent = <<>>

C19_Witness == pull = "failed" /\ pc = "select" /\ ~cancelled

\* the address is empty or begins with neither scheme
BadAddress ==
    \/ config.AgentURL = <<>>
    \/ /\ ~Begins(config.AgentURL, <<"h", "t", "t", "p", ":", "/", "/">>)
       /\ ~Begins(config.AgentURL, <<"h", "t", "t", "p", "s", ":", "/", "/">>)

\* C20: with a bad address Run returns the configuration error from its
\* start, with no receive, no completion request and no send; with a good
\* one it does not; the configuration never changes and Run never goes back
\* to its start.
C20_InvalidConfigRefused ==
    [][/\ BadAddress
            => /\ pc' \in {"start", "failed"}
               /\ pull' = "none" /\ wire' = <<>> /\ calls' = <<>> /\ sent' = <<>>
       /\ ~BadAddress => pc' # "failed"
       /\ config' = config
       /\ pc # "start" => pc' # "start"]_vars

\* AGENT_URL with the scheme in capitals: refused
C20_Witness ==
    /\ pc = "failed"
    /\ config.AgentURL = <<"H", "T", "T", "P", ":", "/", "/", "w">>
    /\ pull = "none"

(***************************************************************************)
(* The loop, continued: suspension points, ignorable events, shutdown      *)
(* between events, the prompts sent to the worker                          *)
(***************************************************************************)
\* C21: a poll cycle that has started comes to its end: from the receive,
\* the completion request and the send the loop always gets back to its
\* select, or returns.
C21_CyclesFinish ==
    (pc \in {"receive", "callAgent", "sendReply"}) ~> (pc \in {"select", "returned"})

\* neither a text nor a receipt
Ignorable(line) ==
    line.sentMessage = <<>> /\ line.dataMessage = <<>> /\ line.receiptTimestamps = <<>>

\* C22: an event with neither a text nor a receipt has no completion request
\* and no send, and the step that processes it only moves the loop to the
\* next event.
C22_IgnorableDiscarded ==
    [][/\ \A j \in DOMAIN wire' :
            Ignorable(wire'[j]) => (CallsFor(j)' = {} /\ SentFor(j)' = {})
       /\ (pc = "range" /\ idx \in DOMAIN wire /\ Ignorable(wire[idx]) /\ idx' # idx)
            => /\ idx' = idx + 1
               /\ UNCHANGED <<pc, cancelled, wire, messages, prompt, reply, calls, sent,
                              results, pull, skipped, config>>]_vars

\* such an event was processed, before a command
C22_Witness ==
    /\ Len(wire) = 2
    /\ wire[1] = EmptyLine
    /\ Processed(1)
    /\ CallsFor(2) # {}

\* C26: when the context is cancelled and the range loop stands before an
\* event, the only step is Run's return; after the return no event from that
\* one on has a completion request or a send.
C26_CancelledBatchDropped ==
    [][/\ (pc = "range" /\ idx <= Len(messages) /\ cancelled /\ (pc' # pc \/ idx' # idx))
            => (pc' = "returned" /\ UNCHANGED <<idx, calls, sent, results>>)
       /\ pc' = "returned"
            => \A j \in DOMAIN wire' : j >= idx' => (CallsFor(j)' = {} /\ SentFor(j)' = {})]_vars

\* the first event was answered, the second, a command, was dropped
C26_Witness ==
    /\ pc = "returned"
    /\ Len(wire) = 2
    /\ idx = 2
    /\ SentFor(1) # {}
    /\ IsReceived(wire[2]) /\ wire[2].dataMessage = TextAsk
    /\ CallsFor(2) = {} /\ SentFor(2) = {}

\* C27: every completion request has a prompt that is not empty and neither
\* begins nor ends with white space; no request is answered by the worker's
\* 400; and the send of an event whose request failed carries the apology.
C27_PromptsValid ==
    /\ \A k \in DOMAIN calls :
        /\ calls[k].prompt # <<>>
        /\ ~IsSpace(calls[k].prompt[1])
        /\ ~IsSpace(calls[k].prompt[Len(calls[k].prompt)])
    /\ \A r \in DOMAIN results :
        /\ ~results[r].invalid
        /\ results[r].failed
             => \A k \in SentFor(results[r].ev) : sent[k].cmd.m = Italic(Apology)

\* "!ai 2+2 " was sent as "2+2", the request failed without any shutdown,
\* and the apology went out
C27_Witness ==
    /\ ~cancelled
    /\ \E r \in DOMAIN results :
        /\ results[r].failed
        /\ \E k \in CallsFor(results[r].ev) : calls[k].prompt = <<"2", "+", "2">>
        /\ \E k \in SentFor(results[r].ev) : sent[k].cmd.m = Italic(Apology)
    /\ pc = "sleep"

(***************************************************************************)
(* The commands of the README (SpecMatcher)                                *)
(***************************************************************************)
\* C23: with AI_PREFIX left unset, "hello" is not triggered, and a text made
\* of "!ai " or of "!code " and a request is triggered and leaves a prompt
\* for the completion request.
C23_ReadmeCommands ==
    (mpc = "done" /\ config.AIPrefix = AIPrefix)
        => /\ input = Hello => ~triggered
           /\ input = <<"!", "a", "i", " ">> \o Hello => (triggered /\ promptOut = Hello)
           /\ input = <<"!", "c", "o", "d", "e", " ">> \o Hello
                => (triggered /\ promptOut = Hello)

C25_GroupOfTheTextsSubMessage ==
    (rpc \in {"addressed", "built"} /\ picked # <<>>)
        => LET fromSent == picked = envelope.SentMessage
               gid      == IF fromSent THEN envelope.SentGroupId ELSE envelope.DataGroupId
           IN  addressee = IF gid # <<>> THEN <<"-", "g", " ">> \o gid ELSE envelope.Source

(***************************************************************************)
(* getHackerNewsTop (SpecNews)                                             *)
(***************************************************************************)
\* C28: for every limit, getHackerNewsTop returns at most 20 articles, in
\* non-increasing score order, each from the first 150 story ids.
C28_AtMostTwenty ==
    (npc = "done" /\ ~errored) =>
        /\ Len(articles) <= MaxLimit
        /\ \A k \in 1..(Len(articles) - 1) : articles[k].score >= articles[k + 1].score
        /\ \A k \in 1..Len(articles) : articles[k].id <= ScanLimit

====
